---- MODULE Spec2Model ----
(***************************************************************************)
(* Model of src/Server.js: an Express application over a MySQL pool and a  *)
(* nodemailer transport.  Every route handler is an async function; it     *)
(* runs synchronously up to its next `await` and other requests interleave *)
(* at those points.  A request in flight is a task record in the bag       *)
(* `inflight`; one action of the model is one run of a handler from one    *)
(* await to the next (the store statement that was awaited plus the        *)
(* synchronous code after it).  A handler reads no shared state before its *)
(* first store statement, so its arrival and that statement are one action.*)
(*                                                                         *)
(* Every store statement either succeeds or throws (parameter `ok` of the  *)
(* actions); the catch block of the handler answers a throw with 500.      *)
(*                                                                         *)
(* Time is counted in minutes.  Strings of the program are TLA+ strings,   *)
(* except the one-time code and the file names, which are the sequences of *)
(* their characters so that toString, extname and toLowerCase are computed *)
(* instead of assumed.                                                     *)
(***************************************************************************)
EXTENDS Bags, FiniteSets, Integers, Sequences

\* ------------------------------------------------------------------ bounds
MaxInflight == 2      \* requests in flight at once
MaxUsers == 2         \* rows of users
MaxOtps == 3          \* rows of user_otps
MaxTime == 10         \* last value of the clock
MaxRows == 2          \* rows of the form tables together
MaxApplications == 2  \* rows of mentor_applications
RandSamples == 2      \* Math.random() yields r / RandSamples, r in 0..RandSamples-1

\* --------------------------------------------------------- program constants
OtpBase == 100000     \* Server.js:197
OtpSpan == 900000     \* Server.js:197
OtpTTL == 10          \* Server.js:198, 10 * 60 * 1000 ms in minutes

\* A body field that was not sent (undefined in req.body, NULL once bound).
NULL == "NULL"

Emails == {"a@x", "b@x"}
Passwords == {"p1", "p2"}

VARIABLES
  users,          \* table users: sequence of rows in insertion order
  user_otps,      \* table user_otps: bag of rows
  now,            \* the clock read by Date.now() and by NOW()
  enrollments,    \* table enrollments: sequence of rows, row i has id i
  registrations,  \* table registrations
  testimonials,   \* table testimonials
  demo_requests,  \* table demo_requests
  mentor_applications,  \* table mentor_applications
  uploads,        \* names of the files in UPLOADS_DIR
  transporter,    \* the nodemailer transport, NULL when createTransport threw
  mail,           \* how the last call of sendMailSafe ended
  inflight,       \* bag of the requests suspended at an await
  resp            \* the HTTP response sent last, with the body it answers

authTables == <<users, user_otps>>
formTables == <<enrollments, registrations, testimonials, demo_requests>>
uploadState == <<mentor_applications, uploads>>
mailState == <<transporter, mail>>

vars == <<authTables, formTables, uploadState, mailState, now, inflight, resp>>

\* ------------------------------------------------------------------ helpers
One(x) == SetToBag({x})

\* Number of suspended requests of handler h.
Pending(h) ==
  LET ts == {t \in BagToSet(inflight) : t.h = h}
      f[S \in SUBSET ts] ==
        IF S = {} THEN 0
        ELSE LET t == CHOOSE x \in S : TRUE IN inflight[t] + f[S \ {t}]
  IN  f[ts]

Task(h, pc, body, loc) == [h |-> h, pc |-> pc, body |-> body, loc |-> loc]

Suspend(t) == inflight' = inflight (+) One(t)
Resume(t, t2) == inflight' = (inflight (-) One(t)) (+) One(t2)
Finish(t) == inflight' = inflight (-) One(t)

\* res.status(status).json({message, token, user}); token and user are sent
\* by verify-otp only.
Response(h, body, status, message) ==
  [h |-> h, req |-> body, status |-> status, message |-> message,
   token |-> NULL, user |-> <<>>, id |-> 0, fileUrl |-> <<>>]

NoResponse == Response("none", <<>>, 0, NULL)

\* SQL comparison `column = ?`: never true when either side is NULL.
SqlEq(a, b) == a # NULL /\ b # NULL /\ a = b

\* ------------------------------------------------------------- one-time code
Digit(d) == <<"0", "1", "2", "3", "4", "5", "6", "7", "8", "9">>[d + 1]

RECURSIVE toString(_)
toString(n) ==
  IF n < 10 THEN <<Digit(n)>> ELSE toString(n \div 10) \o <<Digit(n % 10)>>

Randoms == 0 .. (RandSamples - 1)

\* Faulty variant: the base one digit short.
GenerateOtpShort(r) == toString(OtpBase \div 10 + (r * OtpSpan) \div RandSamples)

\* Math.floor(100000 + Math.random() * 900000).toString()
GenerateOtp(r) == toString(OtpBase + (r * OtpSpan) \div RandSamples)

\* new Date(Date.now() + 10 * 60 * 1000)
ExpiresAt(t) == t + OtpTTL

\* ------------------------------------------------------------------ signup
SignupBodies == [name : {"n"}, email : Emails \cup {NULL}, password : {"p1"}]

\* Faulty variant: the lookup compares the wrong column.
UsersByName(e) == SelectSeq(users, LAMBDA u : SqlEq(u.name, e))

UsersByEmail(e) == SelectSeq(users, LAMBDA u : SqlEq(u.email, e))

Signup(body, ok) ==
  /\ BagCardinality(inflight) < MaxInflight
  /\ Len(users) + Pending("signup") < MaxUsers
  /\ IF ~ok
       THEN /\ resp' = Response("signup", body, 500, "Server error")
            /\ UNCHANGED inflight
       ELSE IF Len(UsersByEmail(body.email)) > 0
         THEN /\ resp' = Response("signup", body, 400, "User already exists")
              /\ UNCHANGED inflight
         ELSE /\ Suspend(Task("signup", "insert", body, <<>>))
              /\ UNCHANGED resp
  /\ UNCHANGED <<users, user_otps, now, formTables, uploadState, mailState>>

\* Faulty variant: the insert fails on an email that is already stored.
SignupInsertUnique(t, ok) ==
  /\ t.h = "signup" /\ t.pc = "insert"
  /\ IF ok /\ \A i \in 1 .. Len(users) : users[i].email # t.body.email
       THEN /\ users' = Append(users, t.body)
            /\ resp' = Response("signup", t.body, 200, "Signup successful!")
       ELSE /\ resp' = Response("signup", t.body, 500, "Server error")
            /\ UNCHANGED users
  /\ Finish(t)
  /\ UNCHANGED <<user_otps, now, formTables, uploadState, mailState>>

SignupInsert(t, ok) ==
  /\ t.h = "signup" /\ t.pc = "insert"
  /\ IF ok
       THEN /\ users' = Append(users, t.body)
            /\ resp' = Response("signup", t.body, 200, "Signup successful!")
       ELSE /\ resp' = Response("signup", t.body, 500, "Server error")
            /\ UNCHANGED users
  /\ Finish(t)
  /\ UNCHANGED <<user_otps, now, formTables, uploadState, mailState>>

\* ------------------------------------------------------------------- login
LoginBodies == [email : Emails, password : Passwords]

UsersByCredentials(e, p) ==
  SelectSeq(users, LAMBDA u : SqlEq(u.email, e) /\ SqlEq(u.password, p))

\* The functions the module declares for sending mail.  A handler that calls
\* any other name raises a ReferenceError, which its catch block answers.
MailFunctions == {"sendMailSafe"}
Throws(f) == f \notin MailFunctions

Login(body, ok, r) ==
  /\ BagCardinality(inflight) < MaxInflight
  /\ BagCardinality(user_otps) + Pending("login") < MaxOtps
  /\ IF ~ok
       THEN /\ resp' = Response("login", body, 500, "Server error")
            /\ UNCHANGED inflight
       ELSE IF Len(UsersByCredentials(body.email, body.password)) = 0
         THEN /\ resp' = Response("login", body, 400, "Invalid email or password")
              /\ UNCHANGED inflight
         ELSE /\ Suspend(Task("login", "insert", body,
                              [otp |-> GenerateOtp(r), at |-> now,
                               expiresAt |-> ExpiresAt(now)]))
              /\ UNCHANGED resp
  /\ UNCHANGED <<users, user_otps, now, formTables, uploadState, mailState>>

OtpRow(t) == [email |-> t.body.email, otp |-> t.loc.otp, expires_at |-> t.loc.expiresAt]

LoginInsert(t, ok) ==
  /\ t.h = "login" /\ t.pc = "insert"
  /\ IF ok
       THEN /\ user_otps' = user_otps (+) One(OtpRow(t))
            /\ resp' = IF Throws("sendMail")
                         THEN Response("login", t.body, 500, "Server error")
                         ELSE Response("login", t.body, 200, "OTP sent to your email")
       ELSE /\ resp' = Response("login", t.body, 500, "Server error")
            /\ UNCHANGED user_otps
  /\ Finish(t)
  /\ UNCHANGED <<users, now, formTables, uploadState, mailState>>

\* -------------------------------------------------------------- verify-otp
OtpInputs == {GenerateOtp(r) : r \in Randoms}

VerifyBodies == [email : Emails, otp : OtpInputs]

\* Faulty variant: a code is still accepted at the instant it expires.
MatchingInclusive(e, otp) ==
  {row \in BagToSet(user_otps) :
     SqlEq(row.email, e) /\ row.otp = otp /\ row.expires_at >= now}

\* SELECT * FROM user_otps WHERE email = ? AND otp = ? AND expires_at > NOW()
Matching(e, otp) ==
  {row \in BagToSet(user_otps) :
     SqlEq(row.email, e) /\ row.otp = otp /\ row.expires_at > now}

\* Faulty variant: only the expired rows of the email are deleted.
DeleteExpiredByEmail(e) ==
  LET keep == {row \in BagToSet(user_otps) :
                 ~SqlEq(row.email, e) \/ row.expires_at > now}
  IN  [row \in keep |-> user_otps[row]]

\* Faulty variant: only the rows of the email that have not expired are deleted.
DeleteValidByEmail(e) ==
  LET keep == {row \in BagToSet(user_otps) :
                 ~SqlEq(row.email, e) \/ row.expires_at <= now}
  IN  [row \in keep |-> user_otps[row]]

\* DELETE FROM user_otps WHERE email = ?
DeleteByEmail(e) ==
  LET keep == {row \in BagToSet(user_otps) : ~SqlEq(row.email, e)}
  IN  [row \in keep |-> user_otps[row]]

VerifyOtp(body, ok) ==
  /\ BagCardinality(inflight) < MaxInflight
  /\ IF ~ok
       THEN /\ resp' = Response("verify", body, 500, "Server error")
            /\ UNCHANGED inflight
       ELSE IF Matching(body.email, body.otp) = {}
         THEN /\ resp' = Response("verify", body, 400, "Invalid or expired OTP")
              /\ UNCHANGED inflight
         ELSE /\ Suspend(Task("verify", "delete", body, <<>>))
              /\ UNCHANGED resp
  /\ UNCHANGED <<users, user_otps, now, formTables, uploadState, mailState>>

VerifyDelete(t, ok) ==
  /\ t.h = "verify" /\ t.pc = "delete"
  /\ IF ok
       THEN /\ user_otps' = DeleteByEmail(t.body.email)
            /\ Resume(t, [t EXCEPT !.pc = "fetch",
                                   !.loc = BagToSet(user_otps (-) DeleteByEmail(t.body.email))])
            /\ UNCHANGED resp
       ELSE /\ resp' = Response("verify", t.body, 500, "Server error")
            /\ Finish(t)
            /\ UNCHANGED user_otps
  /\ UNCHANGED <<users, now, formTables, uploadState, mailState>>

VerifyFetch(t, ok) ==
  /\ t.h = "verify" /\ t.pc = "fetch"
  /\ IF ok
       THEN resp' = [Response("verify", t.body, 200, "Login successful")
                       EXCEPT !.token = "FAKE-JWT-TOKEN",
                              !.user = SubSeq(UsersByEmail(t.body.email), 1, 1)]
       ELSE resp' = Response("verify", t.body, 500, "Server error")
  /\ Finish(t)
  /\ UNCHANGED <<users, user_otps, now, formTables, uploadState, mailState>>

\* -------------------------------------------------------------------- mail
\* How a call of sendMailSafe can go: without a transport it is skipped,
\* with one transporter.sendMail resolves or rejects.
MailOutcomes == IF transporter = NULL THEN {"skipped"} ELSE {"sent", "failed"}

\* Faulty variant: a rejected send reaches the caller.
sendMailUnsafe(outcome) ==
  CASE outcome = "skipped" -> "resolved"
    [] outcome = "sent" -> "resolved"
    [] outcome = "failed" -> "rejected"

\* What the caller of sendMailSafe sees: the promise resolves in every case,
\* a rejected send is caught and logged inside.
sendMailSafe(outcome) ==
  CASE outcome = "skipped" -> "resolved"
    [] outcome = "sent" -> "resolved"
    [] outcome = "failed" -> "resolved"

\* !x of JavaScript for the values a body field takes here.
Falsy(x) == x \in {NULL, ""}

FormRows ==
  Len(enrollments) + Len(registrations) + Len(testimonials) + Len(demo_requests)

\* result.insertId of an AUTO_INCREMENT table from which nothing is deleted.
InsertId(table) == Len(table) + 1

\* ------------------------------------------------------------------ enroll
\* The bodies in `complete`, and each of them with one of `fields` not sent.
WithOneMissing(complete, fields) ==
  complete \cup {[b EXCEPT ![f] = NULL] : b \in complete, f \in fields}

EnrollComplete ==
  [name : {"n"}, email : {"a@x"}, phone : {"1"}, status : {NULL, "Active"},
   courseId : {"c1"}]

EnrollBodies ==
  WithOneMissing(EnrollComplete, {"name", "email", "phone", "courseId"})
    \cup {[b EXCEPT !.name = ""] : b \in EnrollComplete}

\* Faulty variant: courseId is not checked.
EnrollInvalidNoCourse(b) == Falsy(b.name) \/ Falsy(b.email) \/ Falsy(b.phone)

EnrollInvalid(b) ==
  Falsy(b.name) \/ Falsy(b.email) \/ Falsy(b.phone) \/ Falsy(b.courseId)

\* const { status = "Pending" } = req.body
EnrollRow(b) ==
  [name |-> b.name, email |-> b.email, phone |-> b.phone,
   status |-> IF b.status = NULL THEN "Pending" ELSE b.status,
   course_id |-> b.courseId]

Enroll(body, ok) ==
  /\ BagCardinality(inflight) < MaxInflight
  /\ FormRows < MaxRows
  /\ IF EnrollInvalid(body)
       THEN /\ resp' = Response("enroll", body, 400, "All fields are required")
            /\ UNCHANGED <<enrollments, inflight>>
       ELSE IF ok
         THEN /\ enrollments' = Append(enrollments, EnrollRow(body))
              /\ Suspend(Task("enroll", "mail1", body,
                              [insertId |-> InsertId(enrollments)]))
              /\ UNCHANGED resp
         ELSE /\ resp' = Response("enroll", body, 500,
                                  "Server error, please try again later")
              /\ UNCHANGED <<enrollments, inflight>>
  /\ UNCHANGED <<registrations, testimonials, demo_requests>>
  /\ UNCHANGED <<authTables, uploadState, mailState, now>>

EnrollMail1(t, outcome) ==
  /\ t.h = "enroll" /\ t.pc = "mail1"
  /\ outcome \in MailOutcomes
  /\ mail' = outcome
  /\ IF sendMailSafe(outcome) = "resolved"
       THEN /\ Resume(t, [t EXCEPT !.pc = "mail2"])
            /\ UNCHANGED resp
       ELSE /\ resp' = Response("enroll", t.body, 500,
                                "Server error, please try again later")
            /\ Finish(t)
  /\ UNCHANGED <<authTables, formTables, uploadState, transporter, now>>

EnrollMail2(t, outcome) ==
  /\ t.h = "enroll" /\ t.pc = "mail2"
  /\ outcome \in MailOutcomes
  /\ mail' = outcome
  /\ IF sendMailSafe(outcome) = "resolved"
       THEN resp' = [Response("enroll", t.body, 201,
                              "Enrollment successful, confirmation email sent")
                       EXCEPT !.id = t.loc.insertId]
       ELSE resp' = Response("enroll", t.body, 500,
                             "Server error, please try again later")
  /\ Finish(t)
  /\ UNCHANGED <<authTables, formTables, uploadState, transporter, now>>

\* ---------------------------------------------------------------- register
RegisterComplete ==
  [name : {"n"}, email : {"a@x"}, phone : {"1"}, currentStatus : {NULL, "student"},
   workshop : {"w1"}]

RegisterBodies ==
  WithOneMissing(RegisterComplete, {"name", "email", "phone", "workshop"})

RegisterInvalid(b) ==
  Falsy(b.name) \/ Falsy(b.email) \/ Falsy(b.phone) \/ Falsy(b.workshop)

RegisterRow(b) ==
  [name |-> b.name, email |-> b.email, phone |-> b.phone,
   current_status |-> b.currentStatus, workshop_title |-> b.workshop]

Register(body, ok) ==
  /\ BagCardinality(inflight) < MaxInflight
  /\ FormRows < MaxRows
  /\ IF RegisterInvalid(body)
       THEN /\ resp' = Response("register", body, 400, "All fields are required")
            /\ UNCHANGED registrations
       ELSE IF ok
         THEN /\ registrations' = Append(registrations, RegisterRow(body))
              /\ resp' = IF Throws("sendMail")
                           THEN Response("register", body, 500, "DB error")
                           ELSE Response("register", body, 200, "Registration successful!")
         ELSE /\ resp' = Response("register", body, 500, "DB error")
              /\ UNCHANGED registrations
  /\ UNCHANGED <<enrollments, testimonials, demo_requests>>
  /\ UNCHANGED <<authTables, uploadState, mailState, now, inflight>>

\* ------------------------------------------------------------ testimonials
TestimonialBodies ==
  [name : {NULL, "n"}, role : {"student"}, review : {"good"}, verified : {"1"}]

PostTestimonial(body, ok) ==
  /\ BagCardinality(inflight) < MaxInflight
  /\ FormRows < MaxRows
  /\ IF ok
       THEN /\ testimonials' = Append(testimonials, body)
            /\ resp' = [Response("testimonials", body, 200,
                                 "Testimonial added successfully")
                          EXCEPT !.id = InsertId(testimonials)]
       ELSE /\ resp' = Response("testimonials", body, 500, NULL)
            /\ UNCHANGED testimonials
  /\ UNCHANGED <<enrollments, registrations, demo_requests>>
  /\ UNCHANGED <<authTables, uploadState, mailState, now, inflight>>

\* ------------------------------------------------------------ demo-request
DemoBodies ==
  [name : {NULL, "n"}, email : {"a@x"}, phone : {"1"}, status : {"new"},
   course : {"c1"}, message : {"hi"}]

DemoRequest(body, ok) ==
  /\ BagCardinality(inflight) < MaxInflight
  /\ FormRows < MaxRows
  /\ IF ok
       THEN /\ demo_requests' = Append(demo_requests, body)
            /\ resp' = IF Throws("sendMail")
                         THEN Response("demo-request", body, 500,
                                       "Database insert failed")
                         ELSE [Response("demo-request", body, 200, NULL)
                                 EXCEPT !.id = InsertId(demo_requests)]
       ELSE /\ resp' = Response("demo-request", body, 500, "Database insert failed")
            /\ UNCHANGED demo_requests
  /\ UNCHANGED <<enrollments, registrations, testimonials>>
  /\ UNCHANGED <<authTables, uploadState, mailState, now, inflight>>

\* ------------------------------------------------------------ mentor-apply
\* A file name is the sequence of its characters.
Files ==
  { <<"c", "v", ".", "p", "d", "f">>,
    <<"C", "V", ".", "P", "D", "F">>,
    <<"c", "v", ".", "d", "o", "c">>,
    <<"c", "v", ".", "d", "o", "c", "x">>,
    <<"x", ".", "e", "x", "e">>,
    <<"c", "v">> }

\* limits.fileSize
FileSizeLimit == 10 * 1024 * 1024

FileSizes == {1, FileSizeLimit, FileSizeLimit + 1}

NoFile == [originalname |-> <<>>, size |-> 0]

MentorBodies ==
  [name : {"n"}, email : {"a@x"}, phone : {"1"}, expertise : {"ml"},
   experience : {"5"}, message : {"hi"},
   file : {NoFile} \cup [originalname : Files, size : FileSizes]]

\* path.extname: from the last "." to the end, "" when there is none or when
\* the name starts with its only ".".
ExtName(name) ==
  LET dots == {i \in 1 .. Len(name) : name[i] = "."}
      last == CHOOSE i \in dots : \A j \in dots : j <= i
  IN  IF dots = {} \/ last = 1 THEN <<>> ELSE SubSeq(name, last, Len(name))

LowerChar(c) ==
  CASE c = "P" -> "p" [] c = "D" -> "d" [] c = "F" -> "f" [] c = "C" -> "c"
    [] c = "V" -> "v" [] c = "O" -> "o" [] c = "X" -> "x" [] c = "E" -> "e"
    [] OTHER -> c

toLowerCase(str) == [i \in 1 .. Len(str) |-> LowerChar(str[i])]

AllowedExtensions ==
  { <<".", "p", "d", "f">>, <<".", "d", "o", "c">>, <<".", "d", "o", "c", "x">> }

\* fileFilter: ok, or the Error it hands to multer
FileFilter(file) ==
  IF toLowerCase(ExtName(file.originalname)) \in AllowedExtensions
    THEN "ok" ELSE "Invalid file type"

\* storage.filename: Date.now() + path.extname(file.originalname)
StoredName(file) == toString(now) \o ExtName(file.originalname)

\* upload.single("resume"): the file the handler finds in req.file, or the
\* error multer passes to next().
Upload(file) ==
  IF file = NoFile THEN [error |-> NULL, stored |-> FALSE]
  ELSE IF FileFilter(file) # "ok" THEN [error |-> FileFilter(file), stored |-> FALSE]
  ELSE IF file.size > FileSizeLimit THEN [error |-> "File too large", stored |-> FALSE]
  ELSE [error |-> NULL, stored |-> TRUE]

\* An error passed to next() with no error middleware installed is answered
\* by the default error handler of express: err.status || 500.
DefaultErrorStatus == 500

MentorApply(body) ==
  /\ BagCardinality(inflight) < MaxInflight
  /\ Len(mentor_applications) + Pending("mentor-apply") < MaxApplications
  /\ LET up == Upload(body.file) IN
       IF up.error # NULL
         THEN /\ resp' = Response("mentor-apply", body, DefaultErrorStatus, up.error)
              /\ UNCHANGED <<uploads, inflight>>
         ELSE IF ~up.stored
           THEN /\ resp' = Response("mentor-apply", body, 400, "Resume is required")
                /\ UNCHANGED <<uploads, inflight>>
           ELSE /\ uploads' = uploads \cup {StoredName(body.file)}
                /\ Suspend(Task("mentor-apply", "insert", body,
                                [resume |-> StoredName(body.file)]))
                /\ UNCHANGED resp
  /\ UNCHANGED <<mentor_applications, authTables, formTables, mailState, now>>

MentorRow(t) ==
  [name |-> t.body.name, email |-> t.body.email, phone |-> t.body.phone,
   expertise |-> t.body.expertise, experience |-> t.body.experience,
   message |-> t.body.message, resume |-> t.loc.resume]

MentorInsert(t, ok) ==
  /\ t.h = "mentor-apply" /\ t.pc = "insert"
  /\ IF ok
       THEN /\ mentor_applications' = Append(mentor_applications, MentorRow(t))
            /\ resp' = [Response("mentor-apply", t.body, 200, NULL)
                          EXCEPT !.id = InsertId(mentor_applications),
                                 !.fileUrl = <<"/uploads/">> \o t.loc.resume]
       ELSE /\ resp' = Response("mentor-apply", t.body, 500, "DB insert failed")
            /\ UNCHANGED mentor_applications
  /\ Finish(t)
  /\ UNCHANGED <<uploads, authTables, formTables, mailState, now>>

\* -------------------------------------------------------------------- clock
Tick ==
  /\ now + OtpTTL <= MaxTime
  /\ now' = now + OtpTTL
  /\ UNCHANGED <<authTables, formTables, uploadState, mailState, inflight, resp>>

\* ------------------------------------------------------------ specifications
\* The handlers fall into three groups that share no table: the account
\* handlers (users, user_otps), the single-step write handlers (the form
\* tables, and users through signup) and the upload (mentor_applications,
\* the uploads directory).  Each group has its own specification, in which
\* the tables of the other groups stay as Init leaves them.
Init ==
  /\ users = <<>>
  /\ user_otps = EmptyBag
  /\ now = 0
  /\ enrollments = <<>>
  /\ registrations = <<>>
  /\ testimonials = <<>>
  /\ demo_requests = <<>>
  /\ mentor_applications = <<>>
  /\ uploads = {}
  /\ transporter \in {NULL, "smtp"}
  /\ mail = "none"
  /\ inflight = EmptyBag
  /\ resp = NoResponse

\* The login flow never reaches the transport (see Throws).
InitAuth == Init /\ transporter # NULL

NextAuth ==
  \/ Tick
  \/ \E body \in SignupBodies, ok \in BOOLEAN : Signup(body, ok)
  \/ \E t \in BagToSet(inflight), ok \in BOOLEAN : SignupInsert(t, ok)
  \/ \E body \in LoginBodies, ok \in BOOLEAN, r \in Randoms : Login(body, ok, r)
  \/ \E t \in BagToSet(inflight), ok \in BOOLEAN : LoginInsert(t, ok)
  \/ \E body \in VerifyBodies, ok \in BOOLEAN : VerifyOtp(body, ok)
  \/ \E t \in BagToSet(inflight), ok \in BOOLEAN : VerifyDelete(t, ok)
  \/ \E t \in BagToSet(inflight), ok \in BOOLEAN : VerifyFetch(t, ok)

SpecAuth == InitAuth /\ [][NextAuth]_vars

\* The single-step write handlers.
NextForms ==
  \/ \E body \in SignupBodies, ok \in BOOLEAN : Signup(body, ok)
  \/ \E t \in BagToSet(inflight), ok \in BOOLEAN : SignupInsert(t, ok)
  \/ \E body \in EnrollBodies, ok \in BOOLEAN : Enroll(body, ok)
  \/ \E t \in BagToSet(inflight), o \in {"skipped", "sent", "failed"} : EnrollMail1(t, o)
  \/ \E t \in BagToSet(inflight), o \in {"skipped", "sent", "failed"} : EnrollMail2(t, o)
  \/ \E body \in RegisterBodies, ok \in BOOLEAN : Register(body, ok)
  \/ \E body \in TestimonialBodies, ok \in BOOLEAN : PostTestimonial(body, ok)
  \/ \E body \in DemoBodies, ok \in BOOLEAN : DemoRequest(body, ok)

SpecForms == Init /\ [][NextForms]_vars

NextUpload ==
  \/ Tick
  \/ \E body \in MentorBodies : MentorApply(body)
  \/ \E t \in BagToSet(inflight), ok \in BOOLEAN : MentorInsert(t, ok)

SpecUpload == InitAuth /\ [][NextUpload]_vars

\* The whole server.
Next == NextAuth \/ NextForms \/ NextUpload

Spec == Init /\ [][Next]_vars

\* ------------------------------------------------------------------- claims
Tasks == BagToSet(inflight)

StoredCodes(e, otp) == {row \in BagToSet(user_otps) : row.email = e /\ row.otp = otp}

CodesOf(e) == {row \in BagToSet(user_otps) : row.email = e}

IsRejectedOtp(r) ==
  r.h = "verify" /\ r.status = 400 /\ r.message = "Invalid or expired OTP"

\* C1: a verification that finds a stored, unexpired code goes on to delete it
\* and to answer with message, token and user; once its delete has run no row
\* with that email and code is left, a verification that finds no such row is
\* answered 400 and changes nothing, and only the insert of a new login can
\* store such a row again.
C1_VerifyOnce ==
  [][ /\ \A t \in Tasks :
           /\ VerifyDelete(t, TRUE) =>
                {row \in BagToSet(user_otps') :
                   row.email = t.body.email /\ row.otp = t.body.otp} = {}
           /\ VerifyFetch(t, TRUE) =>
                /\ resp'.status = 200 /\ resp'.message = "Login successful"
                /\ resp'.token = "FAKE-JWT-TOKEN"
                /\ Len(resp'.user) = 1 /\ resp'.user[1].email = t.body.email
      /\ \A body \in VerifyBodies :
           VerifyOtp(body, TRUE) =>
             IF \E row \in StoredCodes(body.email, body.otp) : row.expires_at > now
               THEN /\ inflight' = inflight (+) SetToBag({Task("verify", "delete", body, <<>>)})
                    /\ resp' = resp
               ELSE /\ IsRejectedOtp(resp') /\ inflight' = inflight
                    /\ user_otps' = user_otps
      /\ \A body \in VerifyBodies :
           (StoredCodes(body.email, body.otp) = {}
              /\ StoredCodes(body.email, body.otp)' # {})
             => \E t \in Tasks : LoginInsert(t, TRUE) /\ t.body.email = body.email
    ]_vars

\* C1 witness: a verification has just succeeded and its code is gone.
C1_Witness ==
  /\ resp.h = "verify" /\ resp.status = 200 /\ resp.token = "FAKE-JWT-TOKEN"
  /\ Len(resp.user) = 1
  /\ StoredCodes(resp.req.email, resp.req.otp) = {}
  /\ users # <<>>

DigitChars == {"0", "1", "2", "3", "4", "5", "6", "7", "8", "9"}

SixDigits(str) ==
  /\ Len(str) = 6
  /\ \A i \in 1 .. 6 : str[i] \in DigitChars
  /\ str[1] # "0"

\* C2: a login whose email and password match a user row issues exactly one
\* insert; when it runs, user_otps gains exactly one row, for the request's
\* email, with a code of 6 decimal digits not starting with 0 and with
\* expires_at 10 minutes after the time the handler read; nothing else adds a
\* row to user_otps.
C2_LoginStoresCode ==
  [][ /\ \A body \in LoginBodies, r \in Randoms :
           ((\E i \in 1 .. Len(users) :
                 users[i].email = body.email /\ users[i].password = body.password)
              /\ Login(body, TRUE, r))
             => /\ BagCardinality(inflight') = BagCardinality(inflight) + 1
                /\ \E t \in BagToSet(inflight') :
                     /\ t.h = "login" /\ t.body = body /\ t.loc.at = now
                     /\ CopiesIn(t, inflight') = CopiesIn(t, inflight) + 1
                /\ user_otps' = user_otps
      /\ \A t \in Tasks :
           LoginInsert(t, TRUE) =>
             \E row \in BagToSet(user_otps') :
               /\ user_otps' = user_otps (+) SetToBag({row})
               /\ row.email = t.body.email
               /\ SixDigits(row.otp)
               /\ row.expires_at = t.loc.at + 10
               /\ CopiesIn(t, inflight') = CopiesIn(t, inflight) - 1
      /\ BagCardinality(user_otps') > BagCardinality(user_otps)
           => \E t \in Tasks : LoginInsert(t, TRUE)
    ]_vars

\* C2 witness: a code row stored by a login, ten minutes of validity ahead.
C2_Witness ==
  \E row \in BagToSet(user_otps) :
    /\ SixDigits(row.otp)
    /\ row.expires_at = now + 10
    /\ resp.h = "login" /\ resp.req.email = row.email

\* C3: in enroll, login, register and demo-request, once the store write has
\* succeeded the handler sends its success response, however the mail goes.
C3_NotifyFailureInvisible ==
  [][ /\ \A t \in Tasks, o \in {"skipped", "sent", "failed"} :
           /\ EnrollMail1(t, o) => resp' = resp /\ BagCardinality(inflight') = BagCardinality(inflight)
           /\ EnrollMail2(t, o) => resp'.status = 201
      /\ \A t \in Tasks :
           LoginInsert(t, TRUE) =>
             resp'.status = 200 /\ resp'.message = "OTP sent to your email"
      /\ \A body \in RegisterBodies :
           (registrations' # registrations /\ Register(body, TRUE)) =>
             resp'.status = 200 /\ resp'.message = "Registration successful!"
      /\ \A body \in DemoBodies :
           (demo_requests' # demo_requests /\ DemoRequest(body, TRUE)) =>
             resp'.status = 200 /\ resp'.id > 0
    ]_vars

\* C4: a signup whose email is stored in users when its lookup runs is
\* answered 400 "User already exists", inserts nothing and issues no insert.
C4_SignupExisting ==
  [][ \A body \in SignupBodies :
        (body.email # NULL
           /\ (\E i \in 1 .. Len(users) : users[i].email = body.email)
           /\ Signup(body, TRUE))
          => /\ resp'.h = "signup" /\ resp'.status = 400
             /\ resp'.message = "User already exists"
             /\ users' = users
             /\ inflight' = inflight
    ]_vars

\* C4 witness: a signup was refused for an email that users holds.
C4_Witness ==
  /\ resp.h = "signup" /\ resp.status = 400
  /\ \E i \in 1 .. Len(users) : users[i].email = resp.req.email

\* C5: the insert of a signup does not look at users again: if the email was
\* stored by another signup since the lookup, the row is appended all the
\* same and the answer is the success message.
C5_SignupRace ==
  [][ \A t \in Tasks :
        (t.h = "signup"
           /\ (\E i \in 1 .. Len(users) : users[i].email = t.body.email)
           /\ SignupInsert(t, TRUE))
          => /\ users' = Append(users, t.body)
             /\ resp'.status = 200 /\ resp'.message = "Signup successful!"
    ]_vars

\* C5 witness: two user rows with one email, the last signup answered with
\* success.
C5_Witness ==
  /\ \E i, j \in 1 .. Len(users) :
       i < j /\ users[i].email = users[j].email /\ users[i].email # NULL
  /\ resp.h = "signup" /\ resp.status = 200

\* C6: a verification whose email and code are stored only in rows that have
\* expired (expires_at <= NOW()) is answered 400 and leaves user_otps as it
\* is.
C6_ExpiredRejected ==
  [][ \A body \in VerifyBodies :
        (StoredCodes(body.email, body.otp) # {}
           /\ (\A row \in StoredCodes(body.email, body.otp) : row.expires_at <= now)
           /\ VerifyOtp(body, TRUE))
          => /\ IsRejectedOtp(resp')
             /\ user_otps' = user_otps
             /\ inflight' = inflight
    ]_vars

\* C6 witness: a verification was refused and its expired row is still there.
C6_Witness ==
  /\ IsRejectedOtp(resp)
  /\ \E row \in StoredCodes(resp.req.email, resp.req.otp) : row.expires_at <= now

ExpectedEnrollment(b) ==
  [name |-> b.name, email |-> b.email, phone |-> b.phone,
   status |-> IF b.status = NULL THEN "Pending" ELSE b.status,
   course_id |-> b.courseId]

Present(x) == x # NULL /\ x # ""

\* C7: an enroll with name, email, phone and courseId whose insert succeeds
\* appends the payload's row (status "Pending" when omitted); both mails,
\* skipped, sent or failed, leave the table alone, and the answer is 201 with
\* the positive id of that row.
C7_EnrollStoresRow ==
  [][ /\ \A body \in EnrollBodies :
           (Present(body.name) /\ Present(body.email) /\ Present(body.phone)
              /\ Present(body.courseId) /\ enrollments' # enrollments
              /\ Enroll(body, TRUE))
             => /\ enrollments' = Append(enrollments, ExpectedEnrollment(body))
                /\ \E t \in BagToSet(inflight') :
                     t.h = "enroll" /\ t.body = body /\ t.loc.insertId = Len(enrollments')
      /\ \A t \in Tasks, o \in {"skipped", "sent", "failed"} :
           /\ EnrollMail1(t, o) =>
                /\ enrollments' = enrollments /\ resp' = resp
                /\ \E u \in BagToSet(inflight') :
                     u.h = "enroll" /\ u.body = t.body /\ u.loc = t.loc /\ u.pc = "mail2"
           /\ EnrollMail2(t, o) =>
                /\ resp'.h = "enroll" /\ resp'.status = 201
                /\ resp'.id = t.loc.insertId /\ resp'.id > 0
                /\ resp'.id <= Len(enrollments')
                /\ enrollments'[resp'.id] = ExpectedEnrollment(t.body)
    ]_vars

\* C7 witness: an enrollment answered 201 with its row stored although the
\* confirmation mail failed.
C7_Witness ==
  /\ resp.h = "enroll" /\ resp.status = 201 /\ resp.id > 0
  /\ resp.id <= Len(enrollments)
  /\ enrollments[resp.id] = ExpectedEnrollment(resp.req)
  /\ resp.req.status = NULL
  /\ mail = "failed"

\* C8: a mentor-apply whose file has an extension other than .pdf, .doc and
\* .docx, or that has no file, is answered 400 and inserts no row.
C8_BadUploadIs400 ==
  [][ \A body \in MentorBodies :
        (MentorApply(body)
           /\ (body.file = NoFile
                 \/ toLowerCase(ExtName(body.file.originalname)) \notin AllowedExtensions))
          => /\ resp'.status = 400
             /\ mentor_applications' = mentor_applications
             /\ inflight' = inflight
    ]_vars

Missing(b, fields) == \E f \in fields : b[f] = NULL

AllFieldsRequired(r) == r.status = 400 /\ r.message = "All fields are required"

EnrollRequired == {"name", "email", "phone", "courseId"}
RegisterRequired == {"name", "email", "phone", "workshop"}

\* C9, as amended: enroll and register answer a request with a required field
\* missing 400 "All fields are required" and run no insert for it, so their
\* tables never hold a row without one of these fields and no such request is
\* suspended; signup, testimonials and demo-request make no such check: they
\* never answer 400 for a missing field (the only 400 of signup is "User
\* already exists") and a testimonial answered with success is stored with
\* NULL for the missing field.
C9_ValidatingHandlers ==
  /\ \A i \in 1 .. Len(enrollments) :
       \A f \in {"name", "email", "phone", "course_id"} : Present(enrollments[i][f])
  /\ \A i \in 1 .. Len(registrations) :
       \A f \in {"name", "email", "phone", "workshop_title"} : Present(registrations[i][f])
  /\ \A t \in Tasks : t.h = "enroll" => ~Missing(t.body, EnrollRequired)
  /\ (resp.h = "enroll" /\ Missing(resp.req, EnrollRequired)) => AllFieldsRequired(resp)
  /\ (resp.h = "register" /\ Missing(resp.req, RegisterRequired)) => AllFieldsRequired(resp)
  /\ resp.h \in {"testimonials", "demo-request"} => resp.status # 400
  /\ (resp.h = "signup" /\ resp.status = 400) =>
       /\ resp.message = "User already exists"
       /\ \E i \in 1 .. Len(users) : users[i].email = resp.req.email
  /\ (resp.h = "testimonials" /\ resp.status = 200) =>
       /\ resp.id \in 1 .. Len(testimonials)
       /\ testimonials[resp.id] = resp.req

\* C9 witness: an enroll without courseId was refused and nothing was stored.
C9_Witness ==
  /\ resp.h = "enroll" /\ AllFieldsRequired(resp)
  /\ resp.req.courseId = NULL /\ resp.req.name = "n" /\ resp.req.email # NULL
  /\ resp.req.phone # NULL
  /\ enrollments = <<>>

HasNull(row) == \E f \in DOMAIN row : row[f] = NULL

\* C9, as stated: in enroll, signup, register, testimonials and demo-request a
\* request with a required field missing is refused before any mutation: it
\* is never answered with success and no row without the field is inserted.
C9_AllHandlersValidate ==
  /\ \A i \in 1 .. Len(enrollments) :
       \A f \in {"name", "email", "phone", "course_id"} : Present(enrollments[i][f])
  /\ \A i \in 1 .. Len(registrations) :
       \A f \in {"name", "email", "phone", "workshop_title"} : Present(registrations[i][f])
  /\ \A i \in 1 .. Len(users) : ~HasNull(users[i])
  /\ \A i \in 1 .. Len(testimonials) : ~HasNull(testimonials[i])
  /\ \A i \in 1 .. Len(demo_requests) : ~HasNull(demo_requests[i])
  /\ (resp.h \in {"enroll", "signup", "register", "testimonials", "demo-request"}
        /\ resp.status \in {200, 201})
       => ~HasNull([f \in DOMAIN resp.req \ {"status", "currentStatus"} |-> resp.req[f]])

\* C10: the delete of a successful verification for an email removes every
\* user_otps row of that email, whatever its code and expiry, and leaves the
\* rows of other emails and users as they are; while no row of the email is
\* stored every verification for it is answered 400, and only the insert of a
\* login for that email stores one again.
C10_VerifyDeletesAll ==
  [][ /\ \A t \in Tasks :
           VerifyDelete(t, TRUE) =>
             /\ \A row \in BagToSet(user_otps') : row.email # t.body.email
             /\ \A row \in BagToSet(user_otps) :
                  row.email # t.body.email =>
                    CopiesIn(row, user_otps') = CopiesIn(row, user_otps)
             /\ BagToSet(user_otps') \subseteq BagToSet(user_otps)
             /\ users' = users
      /\ \A body \in VerifyBodies :
           (CodesOf(body.email) = {} /\ VerifyOtp(body, TRUE)) =>
             IsRejectedOtp(resp') /\ inflight' = inflight
      /\ \A e \in Emails :
           (CodesOf(e) = {} /\ CodesOf(e)' # {}) =>
             \E t \in Tasks : LoginInsert(t, TRUE) /\ t.body.email = e
    ]_vars

\* C10 witness: a verification has deleted two rows of its email with
\* different codes, one of them expired, and a row of another email is still
\* stored.
C10_Witness ==
  \E t \in Tasks :
    /\ t.h = "verify" /\ t.pc = "fetch"
    /\ \E r1, r2 \in t.loc :
         r1.otp # r2.otp /\ r1.expires_at <= now /\ r2.expires_at > now
    /\ CodesOf(t.body.email) = {}
    /\ \E row \in BagToSet(user_otps) : row.email # t.body.email
====
